---- MODULE Spec2Model ----
(***************************************************************************)
(* Job orchestration pipeline of emotify-reel: the jobs table, and the     *)
(* create-job, process-job and finalize-job edge functions that mutate it. *)
(*                                                                         *)
(* A URL is a sequence of path segments; the empty sequence is the absent  *)
(* (null / undefined / '') URL, which is falsy in the source as well.      *)
(* An optional JSON column is a set: {} is NULL, {v} is the value v.       *)
(* Every edge-function invocation runs in a slot of Procs; one action is   *)
(* one stretch of handler code between two awaited calls.                  *)
(* The store executes the handlers' statements as they are written (the    *)
(* filters are the .eq() filters of the code); an update may fail, and the *)
(* handlers never look at the error an update returns.                     *)
(***************************************************************************)
EXTENDS Integers, Sequences, FiniteSets, TLC

\* ------------------------------------------------------------------ bounds
MaxJobs == 1
MaxCalls == 2

\* invocation slots; Spec runs the invocations one after another in the
\* first slot
Procs == {"p1", "p2"}
SeqProcs == {"p1"}

\* ------------------------------------------------------- request inputs
Users == {"u1", "u2"}
\* the Authorization header: absent, a token the identity service rejects,
\* or the valid token of a user
AuthInputs == Users \cup {"none", "bad"}

NoUrl == <<>>
SelfieUrl == <<"uploads", "u1", "selfies", "me.jpg">>
SongUrl == <<"uploads", "u1", "audio", "song.mp3">>
LipSyncUrl == <<"sync.so", "result.mp4">>
VeoUrl == <<"vertex", "video.mp4">>
\* final_video_url values a finalize-job request may carry
FinalUrlInputs ==
  { NoUrl,
    <<"storage", "outputs", "u1", "final", "job.mp4">>,
    <<"storage", "uploads", "u1", "final", "job.mp4">>,
    <<"evil.example", "not-outputs-bucket", "outputs">> }

EmotionInputs == {"ascending"}
NoEmotion == ""

NoError == "NULL"

\* the URL check without the test for "outputs": any non-empty URL passes
IncludesOutputs_AnyUrl(url) == Len(url) > 0

\* final_video_url.includes("outputs")
IncludesOutputs(url) == \E i \in 1..Len(url) : url[i] = "outputs"

\* ---------------------------------------------------------------- state
VARIABLES
  jobs,       \* the jobs table: jobs[id] is the row with primary key id
  assets,     \* the assets table, in insertion order
  proc,       \* per invocation slot: position and locals of the handler
  calls,      \* number of process-job / finalize-job invocations started
  env,        \* provider configuration variables that are set (Deno.env)
  response,   \* the response to the request made last (NoResp while it runs)
  fnCall,     \* one call of a helper function on its own: input and result
  asm,        \* the run of assembleVideo in the browser
  client,     \* the page's handleGenerate run and its React state
  storage     \* objects in the storage buckets: [bucket, path]

vars == <<jobs, assets, proc, calls, env, response, fnCall, asm, client, storage>>

EnvKeys == {"OPEN_AI_KEY", "SYNC_SO_API", "GOOGLE_SERVICE_ACCOUNT_JSON", "VERTEX_PROJECT_ID"}
\* deployments: no provider key configured, all of them, all but one
EnvConfigs == {{}, {"VERTEX_PROJECT_ID"}, EnvKeys} \cup { EnvKeys \ {k} : k \in EnvKeys }

NoResp == [fn |-> "none", code |-> 0, body |-> "none", assembly |-> {}]
NoJobLocal == [id |-> 0, selfie_url |-> NoUrl, song_url |-> NoUrl, emotion |-> NoEmotion]
NoStoryboard == [iterable |-> TRUE, scenes |-> <<>>]
\* no helper function is called on its own
NoCall == [op |-> "none", in |-> [none |-> TRUE], out |-> {}]

NoManifest == [clips |-> <<>>, audio_url |-> NoUrl]
\* assembleVideo is not running: no file fetched, no progress reported
NoAsm ==
  [ pc |-> "idle", manifest |-> NoManifest, fetched |-> <<>>, clipFiles |-> <<>>,
    concat |-> <<>>, progress |-> <<>>, events |-> 0,
    fetchFailed |-> FALSE, encodeFailed |-> FALSE, blob |-> "none" ]
\* the page before Generate is pressed (useState initial values)
IdleClient ==
  [ pc |-> "idle", user |-> "none", jobId |-> 0, localStatus |-> "queued",
    jobStatus |-> "none", step |-> "emotion", selfieUrl |-> NoUrl, audioUrl |-> NoUrl,
    finalPath |-> <<>>, finalUrl |-> NoUrl, resultUrl |-> NoUrl ]

IdleProc ==
  [ pc |-> "idle", kind |-> "none", user |-> "none", job_id |-> 0,
    final_video_url |-> NoUrl, job |-> NoJobLocal,
    accessToken |-> FALSE, storyboard |-> NoStoryboard,
    clips |-> <<>>, avatarVideoUrl |-> NoUrl, lipSyncCalls |-> 0,
    errMsg |-> NoError ]

Init ==
  /\ jobs = <<>>
  /\ assets = <<>>
  /\ proc = [p \in Procs |-> IdleProc]
  /\ calls = 0
  /\ env \in EnvConfigs
  /\ response = NoResp
  /\ fnCall = NoCall
  /\ asm = NoAsm
  /\ client = IdleClient
  /\ storage = {}

\* a JSON response; assembly is the manifest a process-job success carries
Respond(fn, code, body) == [fn |-> fn, code |-> code, body |-> body, assembly |-> {}]

\* ------------------------------------------------------------ create-job
\* request bodies: complete ones, and ones with a required field missing
CreateBody(emotion, selfie, song) ==
  [emotion |-> emotion, selfie_asset_url |-> selfie, song_asset_url |-> song]
CreateBodies ==
  { CreateBody(e, SelfieUrl, SongUrl) : e \in EmotionInputs }
  \cup { CreateBody(NoEmotion, SelfieUrl, SongUrl),
         CreateBody("ascending", NoUrl, SongUrl),
         CreateBody("ascending", SelfieUrl, NoUrl) }

\* a validation that looks at the emotion only
validateRequestBody_EmotionOnly(emotion, selfie, song) == emotion # NoEmotion

\* validateRequestBody: a string emotion, selfie_asset_url and
\* song_asset_url are required (an empty string is rejected as missing)
validateRequestBody(emotion, selfie, song) ==
  /\ emotion # NoEmotion
  /\ selfie # NoUrl
  /\ song # NoUrl

NewJobRow(user, emotion, selfie, song) ==
  [ user_id |-> user, status |-> "queued", emotion |-> emotion,
    song_url |-> song, selfie_url |-> selfie, result_url |-> NoUrl,
    provider_refs |-> {}, error |-> NoError, assembly_manifest |-> {} ]

\* the create-job handler: auth, body validation, insert with status queued
CreateJob(auth, emotion, selfie, song, dbOk) ==
  /\ Len(jobs) < MaxJobs
  /\ IF auth = "none"
       THEN /\ response' = Respond("create-job", 401, "Authorization required")
            /\ UNCHANGED jobs
       ELSE IF auth \notin Users
         THEN /\ response' = Respond("create-job", 401, "Invalid or expired session")
              /\ UNCHANGED jobs
       ELSE IF ~validateRequestBody(emotion, selfie, song)
         THEN /\ response' = Respond("create-job", 400, "Missing or invalid field")
              /\ UNCHANGED jobs
       ELSE IF ~dbOk
         THEN /\ response' = Respond("create-job", 500, "Failed to create job. Please try again.")
              /\ UNCHANGED jobs
       ELSE /\ response' = Respond("create-job", 200, "job_id")
            /\ jobs' = Append(jobs, NewJobRow(auth, emotion, selfie, song))
  /\ UNCHANGED <<fnCall, asm, client, storage, assets, proc, calls, env>>

\* ------------------------------------------------ retry/backoff utility
RetryBaseDelay == 1000

\* 2^n, for the backoff delay baseDelay * Math.pow(2, attempt - 1)
RECURSIVE Pow2(_)
Pow2(n) == IF n = 0 THEN 1 ELSE 2 * Pow2(n - 1)

\* a wait that does not grow with the attempt
BackoffDelay_Constant(baseDelay, attempt) == baseDelay

\* const delay = baseDelay * Math.pow(2, attempt - 1)
BackoffDelay(baseDelay, attempt) == baseDelay * Pow2(attempt - 1)

\* The for loop of withRetry from attempt on.  script[k] is what the k-th
\* invocation of fn does: [throws, value], the value of a throwing
\* invocation being its error.  The result tells whether withRetry threw
\* (value is lastError) or returned (value is what fn returned), the
\* number of invocations of fn and the waits made between them.
RECURSIVE withRetryLoop(_, _, _, _, _, _)
withRetryLoop(script, maxRetries, baseDelay, attempt, delays, lastError) ==
  IF attempt > maxRetries
    THEN [threw |-> TRUE, value |-> lastError,
          calls |-> attempt - 1, delays |-> delays]
    ELSE IF ~script[attempt].throws
      THEN [threw |-> FALSE, value |-> script[attempt].value,
            calls |-> attempt, delays |-> delays]
      ELSE withRetryLoop(script, maxRetries, baseDelay, attempt + 1,
             IF attempt < maxRetries
               THEN Append(delays, BackoffDelay(baseDelay, attempt))
               ELSE delays,
             script[attempt].value)

\* withRetry with one more wait, after the last failed attempt
withRetry_WaitAfterLast(script, maxRetries, baseDelay) ==
  LET r == withRetryLoop(script, maxRetries, baseDelay, 1, <<>>, "null")
  IN IF r.threw
       THEN [r EXCEPT !.delays = Append(@, BackoffDelay(baseDelay, maxRetries))]
       ELSE r

withRetry(script, maxRetries, baseDelay) ==
  withRetryLoop(script, maxRetries, baseDelay, 1, <<>>, "null")

\* The provider scripts withRetry can consume: behaviours of consecutive
\* invocations, ending with the first one that returns or with the
\* maxRetries-th one.
RetryScripts(behaviours, throwing, maxRetries) ==
  { s \in UNION { [1..k -> behaviours] : k \in 1..maxRetries } :
      /\ \A i \in 1..(Len(s) - 1) : s[i] \in throwing
      /\ Len(s) < maxRetries => s[Len(s)] \notin throwing }

\* ------------------------------------------------------ token exchange
\* what the OAuth2 exchange does when a service-account key is configured
TokenBehaviours == {"ok", "bad_key_json", "http_error", "network_error", "no_token_field"}

\* getGoogleAccessToken: TRUE iff a usable (truthy) access token comes back
getGoogleAccessToken(cfg, behaviour) ==
  IF "GOOGLE_SERVICE_ACCOUNT_JSON" \notin cfg
    THEN FALSE
    ELSE behaviour = "ok"

\* --------------------------------------------------- storyboard planner
Scene(type, prompt, duration) == [type |-> type, prompt |-> prompt, duration_sec |-> duration]

Emotions == {"unfiltered", "vulnerable", "untouchable", "numb", "ascending", "unhinged"}

emotionVisuals(emotion) ==
  CASE emotion = "unfiltered" -> "raw urban street scene"
    [] emotion = "vulnerable" -> "soft rain on window"
    [] emotion = "untouchable" -> "sleek modern architecture"
    [] emotion = "numb" -> "foggy empty streets"
    [] emotion = "ascending" -> "sunrise over mountains"
    [] emotion = "unhinged" -> "chaotic neon lights"
    [] OTHER -> "abstract colorful visuals"

\* a default storyboard for the labels of the table only
getDefaultStoryboard_KnownOnly(emotion) ==
  IF emotion \in Emotions
    THEN << Scene("avatar", "performer singing emotionally to camera", 3),
            Scene("broll", emotionVisuals(emotion), 4),
            Scene("avatar", "close-up of performer singing with emotion", 3) >>
    ELSE <<>>

getDefaultStoryboard(emotion) ==
  << Scene("avatar", "performer singing emotionally to camera", 3),
     Scene("broll", emotionVisuals(emotion), 4),
     Scene("avatar", "close-up of performer singing with emotion", 3) >>

\* duration_sec of a scene or clip that carries none (undefined)
NoDuration == -1

\* scene lists an LLM answer may carry: a scene without duration_sec, a
\* scene of an unknown type whose duration_sec is 0
LLMOddScenes ==
  << Scene("avatar", "intro", 2), Scene("avatar", "verse", NoDuration),
     Scene("title", "credits", 0) >>
LLMNoScenes == <<>>
LLMSceneLists == {LLMOddScenes, LLMNoScenes}

\* what one chat-completion request does: an error status, an abort after
\* 30 s, a body whose content is not JSON, or JSON content of some shape
LLMBehaviours ==
  { [kind |-> k, scenes |-> <<>>] :
      k \in {"http_error", "timeout", "unparseable", "json_null", "json_object"} }
  \cup { [kind |-> "json_scenes", scenes |-> s] : s \in LLMSceneLists }

\* one invocation of the function given to withRetry in generateStoryboard;
\* the value is `content.scenes || content`: a scene list, or the parsed
\* object itself when it has no scenes key (which is not iterable)
StoryboardAttempt(b) ==
  IF b.kind \in {"http_error", "timeout", "unparseable", "json_null"}
    THEN [throws |-> TRUE, value |-> NoStoryboard]
    ELSE [throws |-> FALSE,
          value |-> [iterable |-> (b.kind = "json_scenes"), scenes |-> b.scenes]]

StoryboardMaxRetries == 3

StoryboardThrows(b) == StoryboardAttempt(b).throws
LLMScripts == RetryScripts(LLMBehaviours, { b \in LLMBehaviours : StoryboardThrows(b) }, StoryboardMaxRetries)

generateStoryboard(cfg, emotion, script) ==
  IF "OPEN_AI_KEY" \notin cfg
    THEN [iterable |-> TRUE, scenes |-> getDefaultStoryboard(emotion)]
    ELSE LET r == withRetry([k \in 1..Len(script) |-> StoryboardAttempt(script[k])],
                            StoryboardMaxRetries, RetryBaseDelay)
         IN IF r.threw
              THEN [iterable |-> TRUE, scenes |-> getDefaultStoryboard(emotion)]
              ELSE r.value

\* generateStoryboard without the early return on a missing API key
LLMRequests_NoKeyCheck(cfg, script) ==
  withRetry([k \in 1..Len(script) |-> StoryboardAttempt(script[k])],
            StoryboardMaxRetries, RetryBaseDelay).calls

\* the chat-completion requests generateStoryboard makes: one for each
\* invocation of the function it gives to withRetry
LLMRequests(cfg, script) ==
  IF "OPEN_AI_KEY" \notin cfg
    THEN 0
    ELSE withRetry([k \in 1..Len(script) |-> StoryboardAttempt(script[k])],
                   StoryboardMaxRetries, RetryBaseDelay).calls

\* ------------------------------------------------ text-to-video adapter
VeoMaxAttempts == 60
VeoMaxRetries == 2

\* What the provider does during one submit-and-poll attempt: the submit
\* answers ok / an error status / the fetch throws; an ok answer carries an
\* operation name or not; the operation reports done at poll number
\* pending + 1, with or without a video URI; poll number badPoll (0: none)
\* has a body that is not JSON.
VeoBehaviour(submit, named, pending, hasUri, badPoll) ==
  [submit |-> submit, named |-> named, pending |-> pending, hasUri |-> hasUri, badPoll |-> badPoll]

VeoBehaviours ==
  { VeoBehaviour("http_error", FALSE, 0, FALSE, 0),
    VeoBehaviour("network_error", FALSE, 0, FALSE, 0),
    VeoBehaviour("ok", FALSE, 0, FALSE, 0),
    VeoBehaviour("ok", TRUE, 1, TRUE, 0),
    VeoBehaviour("ok", TRUE, 0, FALSE, 0),
    VeoBehaviour("ok", TRUE, VeoMaxAttempts, TRUE, 0),
    VeoBehaviour("ok", TRUE, 2, TRUE, 1) }

\* The while loop of generateVeoClip.  Poll k (k = 1, 2, ...) is made
\* while attempts = k - 1 < maxAttempts; the loop leaves at the first poll
\* that throws or reports done, else after maxAttempts polls.
VeoPoll(b) ==
  LET firstDone == b.pending + 1
      firstEvent == IF b.badPoll # 0 /\ b.badPoll < firstDone THEN b.badPoll ELSE firstDone
  IN IF firstEvent > VeoMaxAttempts
       THEN [throws |-> FALSE, value |-> NoUrl, polls |-> VeoMaxAttempts]
     ELSE IF firstEvent = b.badPoll
       THEN [throws |-> TRUE, value |-> NoUrl, polls |-> firstEvent]
     ELSE [throws |-> FALSE, value |-> IF b.hasUri THEN VeoUrl ELSE NoUrl,
           polls |-> firstEvent]

\* one invocation of the function given to withRetry in generateVeoClip
VeoAttempt(b) ==
  IF b.submit # "ok"
    THEN [throws |-> TRUE, value |-> NoUrl, polls |-> 0]
    ELSE IF b.named THEN VeoPoll(b)
         ELSE [throws |-> FALSE, value |-> NoUrl, polls |-> 0]

VeoThrows(b) == VeoAttempt(b).throws
VeoScripts == RetryScripts(VeoBehaviours, { b \in VeoBehaviours : VeoThrows(b) }, VeoMaxRetries)

\* generateVeoClip: the clip URL, or NoUrl (null)
generateVeoClip(cfg, script) ==
  IF "VERTEX_PROJECT_ID" \notin cfg
    THEN NoUrl
    ELSE LET r == withRetry([k \in 1..Len(script) |-> VeoAttempt(script[k])],
                            VeoMaxRetries, RetryBaseDelay)
         IN IF r.threw THEN NoUrl ELSE r.value

\* the submit requests generateVeoClip makes: one for each invocation of
\* the function it gives to withRetry
VeoSubmits(cfg, script) ==
  IF "VERTEX_PROJECT_ID" \notin cfg
    THEN 0
    ELSE withRetry([k \in 1..Len(script) |-> VeoAttempt(script[k])],
                   VeoMaxRetries, RetryBaseDelay).calls

\* the status polls of the first n invocations of the function given to
\* withRetry
RECURSIVE SumPolls(_, _)
SumPolls(attempts, n) ==
  IF n = 0 THEN 0 ELSE attempts[n].polls + SumPolls(attempts, n - 1)

\* the status polls one call of generateVeoClip makes, over all the
\* invocations withRetry makes of its function
VeoPolls(cfg, script) ==
  IF "VERTEX_PROJECT_ID" \notin cfg
    THEN 0
    ELSE LET attempts == [k \in 1..Len(script) |-> VeoAttempt(script[k])]
         IN SumPolls(attempts, withRetry(attempts, VeoMaxRetries, RetryBaseDelay).calls)

BrollPolls(cfg, accessToken, script) ==
  IF accessToken THEN VeoPolls(cfg, script) ELSE 0

\* accessToken ? await generateVeoClip(...) : null
BrollUrl(cfg, accessToken, script) ==
  IF accessToken THEN generateVeoClip(cfg, script) ELSE NoUrl

BrollSubmits(cfg, accessToken, script) ==
  IF accessToken THEN VeoSubmits(cfg, script) ELSE 0

\* ------------------------------------------------------ lip-sync adapter
LipSyncMaxAttempts == 120
LipSyncMaxRetries == 2

\* What the provider does during one submit-and-poll attempt: the submit
\* answers ok / an error status / the fetch throws; the job reports status
\* final at poll number pending + 1 (PENDING before), and a COMPLETED
\* answer carries an output URL or not.
LipSyncBehaviour(submit, pending, final, hasUrl) ==
  [submit |-> submit, pending |-> pending, final |-> final, hasUrl |-> hasUrl]

LipSyncBehaviours ==
  { LipSyncBehaviour("http_error", 0, "FAILED", FALSE),
    LipSyncBehaviour("network_error", 0, "FAILED", FALSE),
    LipSyncBehaviour("ok", 1, "FAILED", FALSE),
    LipSyncBehaviour("ok", LipSyncMaxAttempts, "COMPLETED", TRUE),
    LipSyncBehaviour("ok", 1, "COMPLETED", TRUE),
    LipSyncBehaviour("ok", 0, "COMPLETED", FALSE) }

\* The while loop of generateLipSync.  Poll k is made while
\* attempts = k - 1 < maxAttempts; the loop leaves at the first poll whose
\* status is COMPLETED or FAILED, else throws after maxAttempts polls.
LipSyncPoll(b) ==
  LET firstFinal == b.pending + 1
  IN IF firstFinal > LipSyncMaxAttempts
       THEN [throws |-> TRUE, value |-> NoUrl, polls |-> LipSyncMaxAttempts]
     ELSE IF b.final = "COMPLETED"
       THEN [throws |-> FALSE, value |-> IF b.hasUrl THEN LipSyncUrl ELSE NoUrl,
             polls |-> firstFinal]
     ELSE [throws |-> TRUE, value |-> NoUrl, polls |-> firstFinal]

\* one invocation of the function given to withRetry in generateLipSync
LipSyncAttempt(b) ==
  IF b.submit # "ok"
    THEN [throws |-> TRUE, value |-> NoUrl, polls |-> 0]
    ELSE LipSyncPoll(b)

LipSyncThrows(b) == LipSyncAttempt(b).throws
LipSyncScripts == RetryScripts(LipSyncBehaviours, { b \in LipSyncBehaviours : LipSyncThrows(b) }, LipSyncMaxRetries)

\* generateLipSync without the early return on a missing API key
generateLipSync_NoKeyCheck(cfg, script) ==
  LET r == withRetry([k \in 1..Len(script) |-> LipSyncAttempt(script[k])],
                     LipSyncMaxRetries, RetryBaseDelay)
  IN IF r.threw THEN NoUrl ELSE r.value

\* generateLipSync: the lip-synced video URL, or NoUrl (null / undefined)
generateLipSync(cfg, script) ==
  IF "SYNC_SO_API" \notin cfg
    THEN NoUrl
    ELSE LET r == withRetry([k \in 1..Len(script) |-> LipSyncAttempt(script[k])],
                            LipSyncMaxRetries, RetryBaseDelay)
         IN IF r.threw THEN NoUrl ELSE r.value

\* the submit requests generateLipSync makes: one for each invocation of
\* the function it gives to withRetry
LipSyncSubmits(cfg, script) ==
  IF "SYNC_SO_API" \notin cfg
    THEN 0
    ELSE withRetry([k \in 1..Len(script) |-> LipSyncAttempt(script[k])],
                   LipSyncMaxRetries, RetryBaseDelay).calls

\* the status polls one call of generateLipSync makes, over all the
\* invocations withRetry makes of its function
LipSyncPolls(cfg, script) ==
  IF "SYNC_SO_API" \notin cfg
    THEN 0
    ELSE LET attempts == [k \in 1..Len(script) |-> LipSyncAttempt(script[k])]
         IN SumPolls(attempts, withRetry(attempts, LipSyncMaxRetries, RetryBaseDelay).calls)

\* ---------------------------------------------------- store primitives
JobExists(id) == id \in 1..Len(jobs)

\* the select of a job by its id alone
SelectOwnedJob_AnyUser(id, user) == JobExists(id)

\* .from("jobs").select("*").eq("id", id).eq("user_id", user).single()
SelectOwnedJob(id, user) == JobExists(id) /\ jobs[id].user_id = user

\* jobs.update(fields).eq("id", id): the row with the fields overwritten;
\* the table is left as it is when no row matches or the statement fails
UpdateJob(id, fields, dbOk) ==
  IF dbOk /\ JobExists(id)
    THEN [jobs EXCEPT ![id] =
            [c \in DOMAIN jobs[id] |->
               IF c \in DOMAIN fields THEN fields[c] ELSE jobs[id][c]]]
    ELSE jobs

\* a slot is free before its first invocation and after a response
Free(p) == proc[p].pc = "idle"

\* the handler returns: its locals are gone, its response is sent
Return(p, resp) ==
  /\ proc' = [proc EXCEPT ![p] = IdleProc]
  /\ response' = resp

\* ----------------------------------------------------------- process-job
\* validateEnv, Authorization header, auth.getUser, body.job_id and the
\* select of the job by id and user_id: every early return of the handler
PJ_Request(p, auth, job_id, envOk) ==
  /\ Free(p)
  /\ calls < MaxCalls
  /\ calls' = calls + 1
  /\ LET local == [IdleProc EXCEPT !.kind = "process", !.user = auth, !.job_id = job_id]
     IN IF ~envOk
          THEN Return(p, Respond("process-job", 500, "Server configuration error"))
        ELSE IF auth = "none"
          THEN Return(p, Respond("process-job", 401, "No authorization header"))
        ELSE IF auth \notin Users
          THEN Return(p, Respond("process-job", 401, "Unauthorized"))
        ELSE IF job_id = 0
          THEN Return(p, Respond("process-job", 400, "job_id is required"))
        ELSE IF ~SelectOwnedJob(job_id, auth)
          THEN Return(p, Respond("process-job", 404, "Job not found"))
        ELSE /\ proc' = [proc EXCEPT ![p] =
                  [local EXCEPT !.pc = "set_running",
                                !.job = [id |-> job_id,
                                         selfie_url |-> jobs[job_id].selfie_url,
                                         song_url |-> jobs[job_id].song_url,
                                         emotion |-> jobs[job_id].emotion]]]
             /\ response' = NoResp
  /\ UNCHANGED <<fnCall, asm, client, storage, jobs, assets, env>>

\* update({ status: "running" }).eq("id", jobId)
PJ_SetRunning(p, dbOk) ==
  /\ proc[p].pc = "set_running"
  /\ jobs' = UpdateJob(proc[p].job_id, [status |-> "running"], dbOk)
  /\ proc' = [proc EXCEPT ![p].pc = "token"]
  /\ UNCHANGED <<fnCall, asm, client, storage, assets, calls, env, response>>

\* Step 0: the access token for the text-to-video provider
PJ_Token(p, tokenBehaviour) ==
  /\ proc[p].pc = "token"
  /\ proc' = [proc EXCEPT ![p] =
       [@ EXCEPT !.accessToken = getGoogleAccessToken(env, tokenBehaviour),
                 !.pc = "storyboard"]]
  /\ UNCHANGED <<fnCall, asm, client, storage, jobs, assets, calls, env, response>>

\* Step 1: the storyboard.  A storyboard that is not iterable makes the
\* for-of loop of step 2 throw into the catch block.
PJ_Storyboard(p, llmScript) ==
  /\ proc[p].pc = "storyboard"
  /\ LET emotion == IF proc[p].job.emotion = NoEmotion THEN "unfiltered"
                    ELSE proc[p].job.emotion
         sb == generateStoryboard(env, emotion, llmScript)
     IN proc' = [proc EXCEPT ![p] =
          [@ EXCEPT !.storyboard = sb,
                    !.pc = IF sb.iterable THEN "scenes" ELSE "catch",
                    !.errMsg = IF sb.iterable THEN NoError
                               ELSE "storyboard is not iterable"]]
  /\ UNCHANGED <<fnCall, asm, client, storage, jobs, assets, calls, env, response>>

Clip(url, type, duration) == [url |-> url, type |-> type, duration_sec |-> duration]

\* a clip URL without the `|| job.selfie_url` fallback
OrElse_NoFallback(a, b) == a

\* `a || b` on URLs
OrElse(a, b) == IF a # NoUrl THEN a ELSE b

NextScene(p) == proc[p].storyboard.scenes[Len(proc[p].clips) + 1]

MoreScenes(p) ==
  /\ proc[p].pc = "scenes"
  /\ Len(proc[p].clips) < Len(proc[p].storyboard.scenes)

\* the avatarVideoUrl guard of the avatar branch: is generateLipSync called
\* for this scene
NeedsLipSync(avatarVideoUrl) == avatarVideoUrl = NoUrl

\* scene loop, avatar branch
PJ_AvatarScene(p, lipSyncScript) ==
  /\ MoreScenes(p)
  /\ NextScene(p).type = "avatar"
  /\ LET called == NeedsLipSync(proc[p].avatarVideoUrl)
         avatar == IF called THEN generateLipSync(env, lipSyncScript)
                   ELSE proc[p].avatarVideoUrl
     IN proc' = [proc EXCEPT ![p] =
          [@ EXCEPT !.avatarVideoUrl = avatar,
                    !.lipSyncCalls = IF called THEN @ + 1 ELSE @,
                    !.clips = Append(@, Clip(OrElse(avatar, proc[p].job.selfie_url),
                                             "avatar", NextScene(p).duration_sec))]]
  /\ UNCHANGED <<fnCall, asm, client, storage, jobs, assets, calls, env, response>>

\* scene loop, else branch (every scene whose type is not "avatar")
PJ_BrollScene(p, veoScript) ==
  /\ MoreScenes(p)
  /\ NextScene(p).type # "avatar"
  /\ LET brollUrl == BrollUrl(env, proc[p].accessToken, veoScript)
     IN proc' = [proc EXCEPT ![p] =
          [@ EXCEPT !.clips = Append(@, Clip(OrElse(brollUrl, proc[p].job.selfie_url),
                                             "broll", NextScene(p).duration_sec))]]
  /\ UNCHANGED <<fnCall, asm, client, storage, jobs, assets, calls, env, response>>

\* `d || 3` on a duration: undefined and 0 are both falsy
DurationOr3(d) == IF d = NoDuration \/ d = 0 THEN 3 ELSE d

\* clips.reduce((sum, c) => sum + (c.duration_sec || 3), 0)
RECURSIVE totalDuration(_)
totalDuration(clips) ==
  IF clips = <<>> THEN 0
  ELSE DurationOr3(Head(clips).duration_sec) + totalDuration(Tail(clips))

\* a manifest whose audio reference is the selfie
AssemblyManifest_SelfieAudio(clips, job) ==
  [ clips |-> clips,
    audio_url |-> job.selfie_url,
    target |-> [aspect_ratio |-> "9:16", duration_sec |-> totalDuration(clips)],
    upload_target |-> [bucket |-> "outputs", path |-> <<"final", ToString(job.id), ".mp4">>] ]

AssemblyManifest(clips, job) ==
  [ clips |-> clips,
    audio_url |-> job.song_url,
    target |-> [aspect_ratio |-> "9:16", duration_sec |-> totalDuration(clips)],
    upload_target |-> [bucket |-> "outputs", path |-> <<"final", ToString(job.id), ".mp4">>] ]

\* diagnostics that count every clip as generated
ProviderRefs_CountAll(storyboard, avatarVideoUrl, clips, job) ==
  [ storyboard |-> storyboard,
    has_lipsync |-> (avatarVideoUrl # NoUrl),
    clips_generated |-> Len(clips) ]

ProviderRefs(storyboard, avatarVideoUrl, clips, job) ==
  [ storyboard |-> storyboard,
    has_lipsync |-> (avatarVideoUrl # NoUrl),
    clips_generated |-> Cardinality({k \in 1..Len(clips) : clips[k].url # job.selfie_url}) ]

\* a handler that persists the manifest and never answers
PJ_Persist_NoResponse(p, dbOk) ==
  /\ proc[p].pc = "scenes"
  /\ ~MoreScenes(p)
  /\ LET assembly == AssemblyManifest(proc[p].clips, proc[p].job)
         refs == ProviderRefs(proc[p].storyboard.scenes, proc[p].avatarVideoUrl,
                              proc[p].clips, proc[p].job)
     IN jobs' = UpdateJob(proc[p].job_id,
                  [status |-> "ready_for_assembly", assembly_manifest |-> {assembly},
                   provider_refs |-> {refs}], dbOk)
  /\ UNCHANGED <<fnCall, asm, client, storage, assets, calls, env, proc, response>>

\* after the loop: build the manifest, persist it with status
\* ready_for_assembly, respond; the result of the update is not inspected
PJ_Persist(p, dbOk) ==
  /\ proc[p].pc = "scenes"
  /\ ~MoreScenes(p)
  /\ LET assembly == AssemblyManifest(proc[p].clips, proc[p].job)
         refs == ProviderRefs(proc[p].storyboard.scenes, proc[p].avatarVideoUrl,
                              proc[p].clips, proc[p].job)
     IN /\ jobs' = UpdateJob(proc[p].job_id,
                     [status |-> "ready_for_assembly", assembly_manifest |-> {assembly},
                      provider_refs |-> {refs}], dbOk)
        /\ Return(p, [Respond("process-job", 200, "ready_for_assembly")
                         EXCEPT !.assembly = {assembly}])
  /\ UNCHANGED <<fnCall, asm, client, storage, assets, calls, env>>

\* a catch block that answers with the message of the error it caught
PJ_Catch_LeakMessage(p, dbOk) ==
  /\ proc[p].pc = "catch"
  /\ jobs' = UpdateJob(proc[p].job_id,
               [status |-> "error", error |-> proc[p].errMsg], dbOk)
  /\ Return(p, Respond("process-job", 500, proc[p].errMsg))
  /\ UNCHANGED <<fnCall, asm, client, storage, assets, calls, env>>

\* the catch block: best-effort update to status error, generic 500
PJ_Catch(p, dbOk) ==
  /\ proc[p].pc = "catch"
  /\ jobs' = UpdateJob(proc[p].job_id,
               [status |-> "error", error |-> proc[p].errMsg], dbOk)
  /\ Return(p, Respond("process-job", 500, "Processing failed. Please try again."))
  /\ UNCHANGED <<fnCall, asm, client, storage, assets, calls, env>>

\* ---------------------------------------------------------- finalize-job
\* auth, body, select of the job by id and user_id, and the URL check;
\* every throw lands in the catch block, which answers 500 with the message
FJ_Request(p, auth, job_id, final_video_url) ==
  /\ Free(p)
  /\ calls < MaxCalls
  /\ calls' = calls + 1
  /\ LET local == [IdleProc EXCEPT !.kind = "finalize", !.user = auth, !.job_id = job_id,
                                   !.final_video_url = final_video_url]
     IN IF auth = "none"
          THEN Return(p, Respond("finalize-job", 500, "No authorization header"))
        ELSE IF auth \notin Users
          THEN Return(p, Respond("finalize-job", 500, "Unauthorized"))
        ELSE IF ~SelectOwnedJob(job_id, auth)
          THEN Return(p, Respond("finalize-job", 500, "Job not found"))
        ELSE IF final_video_url = NoUrl \/ ~IncludesOutputs(final_video_url)
          THEN Return(p, Respond("finalize-job", 500, "Invalid video URL"))
        ELSE /\ proc' = [proc EXCEPT ![p] = [local EXCEPT !.pc = "fj_update"]]
             /\ response' = NoResp
  /\ UNCHANGED <<fnCall, asm, client, storage, jobs, assets, env>>

\* update({ status: "done", result_url: final_video_url }).eq("id", job_id)
FJ_Update(p, dbOk) ==
  /\ proc[p].pc = "fj_update"
  /\ jobs' = UpdateJob(proc[p].job_id,
               [status |-> "done", result_url |-> proc[p].final_video_url], dbOk)
  /\ proc' = [proc EXCEPT ![p].pc = "fj_insert"]
  /\ UNCHANGED <<fnCall, asm, client, storage, assets, calls, env, response>>

\* insert of the final_video asset record, then { success: true }
FJ_Insert(p, dbOk) ==
  /\ proc[p].pc = "fj_insert"
  /\ assets' = IF dbOk
                 THEN Append(assets, [user_id |-> proc[p].user, type |-> "final_video",
                                      url |-> proc[p].final_video_url,
                                      job_id |-> proc[p].job_id])
                 ELSE assets
  /\ Return(p, Respond("finalize-job", 200, "success"))
  /\ UNCHANGED <<fnCall, asm, client, storage, jobs, calls, env>>

\* ------------------------------------------------------ specification
JobIdInputs == 0..MaxJobs

NextOn(P) ==
  \/ \E auth \in AuthInputs, body \in CreateBodies, dbOk \in BOOLEAN :
       CreateJob(auth, body.emotion, body.selfie_asset_url, body.song_asset_url, dbOk)
  \/ \E p \in P, auth \in AuthInputs, job_id \in JobIdInputs, envOk \in BOOLEAN :
       PJ_Request(p, auth, job_id, envOk)
  \/ \E p \in P, dbOk \in BOOLEAN : PJ_SetRunning(p, dbOk)
  \/ \E p \in P, t \in TokenBehaviours : PJ_Token(p, t)
  \/ \E p \in P, script \in LLMScripts : PJ_Storyboard(p, script)
  \/ \E p \in P, script \in LipSyncScripts : PJ_AvatarScene(p, script)
  \/ \E p \in P, script \in VeoScripts : PJ_BrollScene(p, script)
  \/ \E p \in P, dbOk \in BOOLEAN : PJ_Persist(p, dbOk)
  \/ \E p \in P, dbOk \in BOOLEAN : PJ_Catch(p, dbOk)
  \/ \E p \in P, auth \in AuthInputs, job_id \in JobIdInputs, url \in FinalUrlInputs :
       FJ_Request(p, auth, job_id, url)
  \/ \E p \in P, dbOk \in BOOLEAN : FJ_Update(p, dbOk)
  \/ \E p \in P, dbOk \in BOOLEAN : FJ_Insert(p, dbOk)

Next == NextOn(SeqProcs)

Spec == Init /\ [][Next]_vars

\* the steps of a process-job invocation that has been accepted
HandlerSteps ==
  \/ \E p \in SeqProcs, dbOk \in BOOLEAN : PJ_SetRunning(p, dbOk)
  \/ \E p \in SeqProcs, t \in TokenBehaviours : PJ_Token(p, t)
  \/ \E p \in SeqProcs, script \in LLMScripts : PJ_Storyboard(p, script)
  \/ \E p \in SeqProcs, script \in LipSyncScripts : PJ_AvatarScene(p, script)
  \/ \E p \in SeqProcs, script \in VeoScripts : PJ_BrollScene(p, script)
  \/ \E p \in SeqProcs, dbOk \in BOOLEAN : PJ_Persist(p, dbOk)
  \/ \E p \in SeqProcs, dbOk \in BOOLEAN : PJ_Catch(p, dbOk)

\* process-job on its own: a job of u1 has been created, and process-job
\* requests arrive one at a time
FairInit ==
  /\ jobs = <<NewJobRow("u1", "ascending", SelfieUrl, SongUrl)>>
  /\ assets = <<>>
  /\ proc = [p \in Procs |-> IdleProc]
  /\ calls = 0
  /\ env \in {{}, EnvKeys}
  /\ response = NoResp
  /\ fnCall = NoCall
  /\ asm = NoAsm
  /\ client = IdleClient
  /\ storage = {}

FairNext ==
  \/ \E p \in SeqProcs, auth \in AuthInputs, job_id \in JobIdInputs, envOk \in BOOLEAN :
       PJ_Request(p, auth, job_id, envOk)
  \/ HandlerSteps

\* every outbound call of a running invocation eventually returns or fails
\* and the isolate keeps running: a handler's next step is taken when it
\* stays possible; requests are under no obligation to arrive
FairSpec == FairInit /\ [][FairNext]_vars /\ WF_vars(HandlerSteps)

\* ------------------------------------- helper functions on their own
\* FnSpec calls one helper function once, on an input drawn in FnInit,
\* under a provider configuration drawn in FnInit; the tables stay empty.
MaxRetryInput == 4

\* the six labels, a label outside the table, and the empty label
EmotionLabels == Emotions \cup {"unknown", NoEmotion}

\* what an invocation of the function given to withRetry does
RetryOutcomes ==
  { [throws |-> TRUE, value |-> "error1"], [throws |-> TRUE, value |-> "error2"],
    [throws |-> FALSE, value |-> "value1"] }

RetryInputs ==
  UNION { { [script |-> s, maxRetries |-> n, baseDelay |-> d] :
              s \in [1..n -> RetryOutcomes], d \in {RetryBaseDelay, 500} } :
          n \in 1..MaxRetryInput }

Call(op, in) == [op |-> op, in |-> in, out |-> {}]

FnCalls ==
  { Call("getDefaultStoryboard", [emotion |-> e]) : e \in EmotionLabels }
  \cup { Call("generateStoryboard", [emotion |-> e, script |-> s]) :
           e \in EmotionLabels, s \in LLMScripts }
  \cup { Call("withRetry", i) : i \in RetryInputs }
  \cup { Call("generateLipSync", [script |-> s]) : s \in LipSyncScripts }
  \cup { Call("brollUrl", [accessToken |-> a, script |-> s]) :
           a \in BOOLEAN, s \in VeoScripts }

FnInit ==
  /\ jobs = <<>>
  /\ assets = <<>>
  /\ proc = [p \in Procs |-> IdleProc]
  /\ calls = 0
  /\ env \in EnvConfigs
  /\ response = NoResp
  /\ fnCall \in FnCalls
  /\ asm = NoAsm
  /\ client = IdleClient
  /\ storage = {}

\* the call returns result
FnReturn(op, result) ==
  /\ fnCall.op = op
  /\ fnCall.out = {}
  /\ fnCall' = [fnCall EXCEPT !.out = {result}]
  /\ UNCHANGED <<jobs, assets, proc, calls, env, response, asm, client, storage>>

Fn_getDefaultStoryboard ==
  /\ fnCall.op = "getDefaultStoryboard"
  /\ FnReturn("getDefaultStoryboard", getDefaultStoryboard(fnCall.in.emotion))

Fn_generateStoryboard ==
  /\ fnCall.op = "generateStoryboard"
  /\ FnReturn("generateStoryboard",
       [storyboard |-> generateStoryboard(env, fnCall.in.emotion, fnCall.in.script),
        requests |-> LLMRequests(env, fnCall.in.script)])

Fn_withRetry ==
  /\ fnCall.op = "withRetry"
  /\ FnReturn("withRetry",
       withRetry(fnCall.in.script, fnCall.in.maxRetries, fnCall.in.baseDelay))

Fn_generateLipSync ==
  /\ fnCall.op = "generateLipSync"
  /\ FnReturn("generateLipSync",
       [url |-> generateLipSync(env, fnCall.in.script),
        submits |-> LipSyncSubmits(env, fnCall.in.script),
        polls |-> LipSyncPolls(env, fnCall.in.script)])

Fn_brollUrl ==
  /\ fnCall.op = "brollUrl"
  /\ FnReturn("brollUrl",
       [url |-> BrollUrl(env, fnCall.in.accessToken, fnCall.in.script),
        submits |-> BrollSubmits(env, fnCall.in.accessToken, fnCall.in.script),
        polls |-> BrollPolls(env, fnCall.in.accessToken, fnCall.in.script)])

FnNext ==
  \/ Fn_getDefaultStoryboard
  \/ Fn_generateStoryboard
  \/ Fn_withRetry
  \/ Fn_generateLipSync
  \/ Fn_brollUrl

FnSpec == FnInit /\ [][FnNext]_vars

\* ------------------------------------------------ client-side assembler
\* assembleVideo.  fetchFile, FFmpeg.exec and the progress event belong to
\* the ffmpeg.wasm library: a fetch throws on a network error and resolves
\* with the body whatever the HTTP status; exec resolves (with an exit code
\* the caller does not read) or throws, and may leave no output file, a
\* partial one or a complete one; a progress event carries any ratio.
MaxClips == 3
MaxProgressEvents == 2

\* a progress value, as an exact fraction
Frac(n, d) == [num |-> n, den |-> d]
FracLeq(a, b) == a.num * b.den <= b.num * a.den

\* (downloadedCount / totalClips) * 30
DownloadProgress(downloadedCount, totalClips) == Frac(downloadedCount * 30, totalClips)
\* 30 + progress * 60
EncodeProgress(ratio) == Frac(30 * ratio.den + 60 * ratio.num, ratio.den)

FetchOutcomes == {"ok", "network_error", "http_error"}
ExecOutcomes == {"ok", "fail_no_output", "fail_partial_output", "throws"}
ProgressRatios == {Frac(0, 1), Frac(1, 2), Frac(1, 1), Frac(3, 2)}

\* `clip_${i}.mp4`
ClipFile(i) == <<"clip", i, "mp4">>

\* the clips in reverse order
ClipToFetch_Reversed(manifest, i) == manifest.clips[Len(manifest.clips) - i]

\* manifest.clips[i], i counting from 0
ClipToFetch(manifest, i) == manifest.clips[i + 1]

\* assembleVideo(manifest, onProgress) is called
AsmStart(manifest) == [NoAsm EXCEPT !.pc = "load", !.manifest = manifest]

AsmReject(fetchFailed, encodeFailed) ==
  [asm EXCEPT !.pc = "rejected",
              !.fetchFailed = @ \/ fetchFailed, !.encodeFailed = @ \/ encodeFailed]

\* loadFFmpeg
Asm_Load(ok) ==
  /\ asm.pc = "load"
  /\ asm' = IF ok THEN [asm EXCEPT !.pc = "clips"] ELSE AsmReject(FALSE, FALSE)
  /\ UNCHANGED <<jobs, assets, proc, calls, env, response, fnCall, client, storage>>

\* one iteration of the download loop
Asm_FetchClip(outcome) ==
  /\ asm.pc = "clips"
  /\ Len(asm.clipFiles) < Len(asm.manifest.clips)
  /\ LET i == Len(asm.clipFiles)
         totalClips == Len(asm.manifest.clips) + 1
         fetched == Append(asm.fetched, ClipToFetch(asm.manifest, i).url)
     IN asm' = IF outcome = "network_error"
                 THEN [AsmReject(TRUE, FALSE) EXCEPT !.fetched = fetched]
                 ELSE [asm EXCEPT !.fetched = fetched,
                                  !.clipFiles = Append(@, ClipFile(i)),
                                  !.progress = Append(@, DownloadProgress(i + 1, totalClips)),
                                  !.fetchFailed = @ \/ (outcome = "http_error")]
  /\ UNCHANGED <<jobs, assets, proc, calls, env, response, fnCall, client, storage>>

\* download of the audio, concat.txt, registration of the progress handler
Asm_FetchAudio(outcome) ==
  /\ asm.pc = "clips"
  /\ Len(asm.clipFiles) = Len(asm.manifest.clips)
  /\ LET fetched == Append(asm.fetched, asm.manifest.audio_url)
     IN asm' = IF outcome = "network_error"
                 THEN [AsmReject(TRUE, FALSE) EXCEPT !.fetched = fetched]
                 ELSE [asm EXCEPT !.fetched = fetched,
                                  !.progress = Append(@, Frac(30, 1)),
                                  !.concat = asm.clipFiles,
                                  !.fetchFailed = @ \/ (outcome = "http_error"),
                                  !.pc = "exec"]
  /\ UNCHANGED <<jobs, assets, proc, calls, env, response, fnCall, client, storage>>

\* a progress event of the library while exec runs
Asm_ProgressEvent(ratio) ==
  /\ asm.pc = "exec"
  /\ asm.events < MaxProgressEvents
  /\ asm' = [asm EXCEPT !.events = @ + 1,
                        !.progress = Append(@, EncodeProgress(ratio))]
  /\ UNCHANGED <<jobs, assets, proc, calls, env, response, fnCall, client, storage>>

\* exec returns or throws; then onProgress(95), readFile (which throws when
\* there is no output file), the cleanup, onProgress(100) and the return
Asm_Exec(outcome) ==
  /\ asm.pc = "exec"
  /\ outcome = "ok" => ~asm.fetchFailed
  /\ asm' =
       CASE outcome = "throws" -> AsmReject(FALSE, TRUE)
         [] outcome = "fail_no_output" ->
              [AsmReject(FALSE, TRUE) EXCEPT !.progress = Append(@, Frac(95, 1))]
         [] OTHER ->
              [asm EXCEPT !.pc = "resolved",
                          !.encodeFailed = (outcome # "ok"),
                          !.blob = IF outcome = "ok" THEN "complete" ELSE "partial",
                          !.progress = @ \o <<Frac(95, 1), Frac(100, 1)>>]
  /\ UNCHANGED <<jobs, assets, proc, calls, env, response, fnCall, client, storage>>

AsmNext ==
  \/ \E ok \in BOOLEAN : Asm_Load(ok)
  \/ \E outcome \in FetchOutcomes : Asm_FetchClip(outcome)
  \/ \E outcome \in FetchOutcomes : Asm_FetchAudio(outcome)
  \/ \E ratio \in ProgressRatios : Asm_ProgressEvent(ratio)
  \/ \E outcome \in ExecOutcomes : Asm_Exec(outcome)

\* manifests of up to MaxClips clips, as process-job builds them
ClipUrls == {SelfieUrl, LipSyncUrl, VeoUrl}
AsmManifests ==
  { AssemblyManifest([k \in 1..n |-> Clip(urls[k], "broll", 3)],
                     [NoJobLocal EXCEPT !.id = 1, !.song_url = SongUrl]) :
      n \in 0..MaxClips, urls \in [1..MaxClips -> ClipUrls] }

AsmInit ==
  /\ jobs = <<>>
  /\ assets = <<>>
  /\ proc = [p \in Procs |-> IdleProc]
  /\ calls = 0
  /\ env = {}
  /\ response = NoResp
  /\ fnCall = NoCall
  /\ asm \in { AsmStart(m) : m \in AsmManifests }
  /\ client = IdleClient
  /\ storage = {}

AsmSpec == AsmInit /\ [][AsmNext]_vars

\* ------------------------------------------------------ browser client
\* handleGenerate of the page, one run: upload of the inputs, create-job,
\* process-job, assembleVideo, upload of the result, finalize-job.  The
\* page waits for a function's response (supabase.functions.invoke) and
\* reads it from response; a non-2xx answer is the invoke's error.
JobStatuses == {"queued", "running", "ready_for_assembly", "assembling", "done", "error"}

UploadOutcomes == {"ok", "upload_error", "unsigned"}

\* createSignedUrl(path) of a bucket
SignedUrl(bucket, path) == <<"storage", "sign", bucket>> \o path

\* `${user.id}/final/${newJobId}.mp4`
FinalPath(user, jobId) == <<user, "final", ToString(jobId), ".mp4">>

\* the catch block of handleGenerate
ClientCatch == [client EXCEPT !.pc = "finished", !.localStatus = "error"]

\* `job?.status || localStatus`, the status prop of GenerateScreen; job is
\* the state of useJob, null until a row was loaded
ScreenStatus == IF client.jobStatus # "none" THEN client.jobStatus ELSE client.localStatus

\* GenerateScreen is rendered and shows MAKE IT HIT or TRY AGAIN
GenerateOffered ==
  /\ client.step = "generate"
  /\ ScreenStatus \in {"queued", "error"}

\* a handleGenerate run has started and has not yet set done or error
InFlight == client.pc \notin {"idle", "finished"}

\* onContinue of EmotionPicker and of UploadScreen
Client_Continue ==
  /\ ~InFlight
  /\ client.step \in {"emotion", "upload"}
  /\ client' = [client EXCEPT !.step = IF client.step = "emotion" THEN "upload"
                                       ELSE "generate"]
  /\ UNCHANGED <<jobs, assets, proc, calls, env, response, fnCall, asm, storage>>

\* useJob: the fetch on a new jobId, or a realtime change event, puts the
\* row's current status into the job state
UseJob_Load ==
  /\ client.jobId # 0
  /\ SelectOwnedJob(client.jobId, client.user)
  /\ client.jobStatus # jobs[client.jobId].status
  /\ client' = [client EXCEPT !.jobStatus = jobs[client.jobId].status]
  /\ UNCHANGED <<jobs, assets, proc, calls, env, response, fnCall, asm, storage>>

\* handleMakeAnother, the button of ResultScreen (rendered for step result
\* with a resultUrl): the page's state is reset and jobId set to null; the
\* job state of useJob is left as it is, its effect returns early on null
Client_MakeAnother ==
  /\ client.step = "result"
  /\ client.resultUrl # NoUrl
  /\ client' = [client EXCEPT !.pc = "idle", !.step = "emotion", !.jobId = 0,
                              !.localStatus = "queued", !.resultUrl = NoUrl]
  /\ UNCHANGED <<jobs, assets, proc, calls, env, response, fnCall, asm, storage>>

\* the button of GenerateScreen is pressed, emotion, selfie and audio
\* chosen; the run awaits the answers of the calls it is about to make
Client_Generate(user, hasSession) ==
  /\ ~InFlight
  /\ GenerateOffered
  /\ client.user \in {"none", user}
  /\ Len(jobs) < MaxJobs
  /\ IF hasSession
       THEN /\ client' = [client EXCEPT !.pc = "upload", !.user = user,
                                        !.localStatus = "running", !.step = "generate"]
            /\ response' = NoResp
       ELSE UNCHANGED <<client, response>>
  /\ UNCHANGED <<jobs, assets, proc, calls, env, fnCall, asm, storage>>

\* Promise.all of the two uploadFile calls; a signed URL that cannot be
\* made is the empty string
Client_UploadInputs(outcome) ==
  /\ client.pc = "upload"
  /\ IF outcome = "upload_error"
       THEN /\ client' = ClientCatch
            /\ UNCHANGED storage
       ELSE /\ storage' = storage \cup
                 { [bucket |-> "uploads", path |-> <<client.user, "selfies", "me.jpg">>],
                   [bucket |-> "uploads", path |-> <<client.user, "audio", "song.mp3">>] }
            /\ client' = [client EXCEPT !.pc = "create",
                            !.selfieUrl = IF outcome = "ok" THEN SelfieUrl ELSE NoUrl,
                            !.audioUrl = SongUrl]
  /\ UNCHANGED <<jobs, assets, proc, calls, env, response, fnCall, asm>>

\* functions.invoke('create-job') is sent
Client_InvokeCreate(dbOk) ==
  /\ client.pc = "create"
  /\ response.fn = "none"
  /\ CreateJob(client.user, "ascending", client.selfieUrl, client.audioUrl, dbOk)

\* create-job has answered: createError throws, else the job id is kept
Client_AfterCreate ==
  /\ client.pc = "create"
  /\ response.fn = "create-job"
  /\ client' = IF response.code = 200
                 THEN [client EXCEPT !.pc = "process", !.jobId = Len(jobs)]
                 ELSE ClientCatch
  /\ UNCHANGED <<jobs, assets, proc, calls, env, response, fnCall, asm, storage>>

\* functions.invoke('process-job') is sent
Client_InvokeProcess(p, envOk) ==
  /\ client.pc = "process"
  /\ response.fn = "create-job"
  /\ PJ_Request(p, client.user, client.jobId, envOk)

\* process-job has answered: processError throws; a ready_for_assembly
\* answer with a manifest starts assembleVideo
Client_AfterProcess ==
  /\ client.pc = "process"
  /\ response.fn = "process-job"
  /\ IF response.code # 200
       THEN client' = ClientCatch /\ UNCHANGED asm
       ELSE IF response.body = "ready_for_assembly" /\ response.assembly # {}
         THEN /\ client' = [client EXCEPT !.pc = "assemble", !.localStatus = "assembling"]
              /\ asm' \in { AsmStart(m) : m \in response.assembly }
         ELSE client' = [client EXCEPT !.pc = "finished"] /\ UNCHANGED asm
  /\ UNCHANGED <<jobs, assets, proc, calls, env, response, fnCall, storage>>

\* assembleVideo has returned the blob or thrown; of the call only the
\* blob remains
Client_AfterAssemble ==
  /\ client.pc = "assemble"
  /\ asm.pc \in {"resolved", "rejected"}
  /\ client' = IF asm.pc = "resolved"
                 THEN [client EXCEPT !.pc = "upload_final"]
                 ELSE ClientCatch
  /\ asm' = [NoAsm EXCEPT !.blob = asm.blob]
  /\ UNCHANGED <<jobs, assets, proc, calls, env, response, fnCall, storage>>

\* upload of the blob to the outputs bucket (uploadError throws), then
\* createSignedUrl, whose failure leaves the URL undefined
Client_UploadFinal(uploadOk, signOk) ==
  /\ client.pc = "upload_final"
  /\ LET finalPath == FinalPath(client.user, client.jobId)
     IN IF ~uploadOk
          THEN /\ client' = [ClientCatch EXCEPT !.finalPath = finalPath]
               /\ UNCHANGED storage
          ELSE /\ storage' = storage \cup {[bucket |-> "outputs", path |-> finalPath]}
               /\ client' = [client EXCEPT !.pc = "finalize", !.finalPath = finalPath,
                               !.finalUrl = IF signOk THEN SignedUrl("outputs", finalPath)
                                            ELSE NoUrl]
  /\ UNCHANGED <<jobs, assets, proc, calls, env, response, fnCall, asm>>

\* functions.invoke('finalize-job') is sent
Client_InvokeFinalize(p) ==
  /\ client.pc = "finalize"
  /\ response.fn = "process-job"
  /\ FJ_Request(p, client.user, client.jobId, client.finalUrl)

\* finalize-job has answered; the answer is not read
Client_AfterFinalize ==
  /\ client.pc = "finalize"
  /\ response.fn = "finalize-job"
  /\ client' = [client EXCEPT !.pc = "finished", !.resultUrl = client.finalUrl,
                              !.localStatus = "done", !.step = "result"]
  /\ UNCHANGED <<jobs, assets, proc, calls, env, response, fnCall, asm, storage>>

\* useJob(jobId).updateStatus(status): an update of the row through the
\* user's own client; the policy "Users can update own jobs" lets it
\* through on the user's rows
Client_updateStatus(status, dbOk) ==
  /\ client.pc = "finished"
  /\ client.jobId # 0
  /\ jobs' = IF SelectOwnedJob(client.jobId, client.user)
                THEN UpdateJob(client.jobId, [status |-> status], dbOk)
                ELSE jobs
  /\ UNCHANGED <<assets, proc, calls, env, response, fnCall, asm, client, storage>>

\* the steps of one handleGenerate run, the functions it invokes included
ClientFlow ==
  \/ Client_Continue
  \/ \E user \in Users, hasSession \in BOOLEAN : Client_Generate(user, hasSession)
  \/ \E outcome \in UploadOutcomes : Client_UploadInputs(outcome)
  \/ \E dbOk \in BOOLEAN : Client_InvokeCreate(dbOk)
  \/ Client_AfterCreate
  \/ \E p \in SeqProcs, envOk \in BOOLEAN : Client_InvokeProcess(p, envOk)
  \/ \E p \in SeqProcs, dbOk \in BOOLEAN : PJ_SetRunning(p, dbOk)
  \/ \E p \in SeqProcs, t \in TokenBehaviours : PJ_Token(p, t)
  \/ \E p \in SeqProcs, script \in LLMScripts : PJ_Storyboard(p, script)
  \/ \E p \in SeqProcs, script \in LipSyncScripts : PJ_AvatarScene(p, script)
  \/ \E p \in SeqProcs, script \in VeoScripts : PJ_BrollScene(p, script)
  \/ \E p \in SeqProcs, dbOk \in BOOLEAN : PJ_Persist(p, dbOk)
  \/ \E p \in SeqProcs, dbOk \in BOOLEAN : PJ_Catch(p, dbOk)
  \/ Client_AfterProcess
  \/ AsmNext
  \/ Client_AfterAssemble
  \/ \E uploadOk \in BOOLEAN, signOk \in BOOLEAN : Client_UploadFinal(uploadOk, signOk)
  \/ \E p \in SeqProcs : Client_InvokeFinalize(p)
  \/ \E p \in SeqProcs, dbOk \in BOOLEAN : FJ_Update(p, dbOk)
  \/ \E p \in SeqProcs, dbOk \in BOOLEAN : FJ_Insert(p, dbOk)
  \/ Client_AfterFinalize

ClientNext ==
  \/ ClientFlow
  \/ UseJob_Load
  \/ Client_MakeAnother
  \/ \E status \in JobStatuses, dbOk \in BOOLEAN : Client_updateStatus(status, dbOk)

\* the run is followed with every provider key configured or none
ClientInit == Init /\ env \in {{}, EnvKeys}

ClientSpec == ClientInit /\ [][ClientNext]_vars

\* every outbound call of the run eventually returns or fails, and the page
\* and the functions keep running: the steps of the run are taken when they
\* stay possible (updateStatus is under no such obligation)
ClientFairSpec == ClientSpec /\ WF_vars(ClientFlow)

\* ------------------------------------- process-job, scaffold handler
\* The first serve() of process-job/index.ts.  Its client carries the anon
\* key only, so whether its select sees the row is the row-level policies'
\* decision (rowVisible).  A throw before req.json() leaves the body unread,
\* and the catch block then reads job_id from it; a throw after the body was
\* read leaves the catch block without a job_id.
ScaffoldManifest(job) ==
  [ clips |-> << Clip(job.selfie_url, "hero_shot", 3),
                 Clip(job.selfie_url, "veo_clip", 4),
                 Clip(job.selfie_url, "veo_clip", 3) >>,
    audio_url |-> job.song_url,
    target |-> [aspect_ratio |-> "9:16", duration_sec |-> 10],
    upload_target |-> [bucket |-> "outputs", path |-> <<"final", ToString(job.id), ".mp4">>] ]

\* Authorization header, auth.getUser, req.json(), select of the job
SC_Request(p, auth, job_id, rowVisible) ==
  /\ Free(p)
  /\ calls < MaxCalls
  /\ calls' = calls + 1
  /\ LET local == [IdleProc EXCEPT !.kind = "process", !.user = auth, !.job_id = job_id]
     IN IF auth = "none"
          THEN /\ proc' = [proc EXCEPT ![p] =
                    [local EXCEPT !.pc = "sc_catch", !.errMsg = "No authorization header"]]
               /\ response' = NoResp
        ELSE IF auth \notin Users
          THEN /\ proc' = [proc EXCEPT ![p] =
                    [local EXCEPT !.pc = "sc_catch", !.errMsg = "Unauthorized"]]
               /\ response' = NoResp
        ELSE IF ~(rowVisible /\ SelectOwnedJob(job_id, auth))
          THEN Return(p, Respond("process-job", 500, "Job not found"))
        ELSE /\ proc' = [proc EXCEPT ![p] =
                  [local EXCEPT !.pc = "sc_running",
                                !.job = [id |-> job_id,
                                         selfie_url |-> jobs[job_id].selfie_url,
                                         song_url |-> jobs[job_id].song_url,
                                         emotion |-> jobs[job_id].emotion]]]
             /\ response' = NoResp
  /\ UNCHANGED <<fnCall, asm, client, storage, jobs, assets, env>>

\* update({ status: "running" }).eq("id", job_id)
SC_SetRunning(p, dbOk) ==
  /\ proc[p].pc = "sc_running"
  /\ jobs' = UpdateJob(proc[p].job_id, [status |-> "running"], dbOk)
  /\ proc' = [proc EXCEPT ![p].pc = "sc_persist"]
  /\ UNCHANGED <<fnCall, asm, client, storage, assets, calls, env, response>>

\* after the simulated processing time: the mock manifest is persisted with
\* status ready_for_assembly and answered
SC_Persist(p, dbOk) ==
  /\ proc[p].pc = "sc_persist"
  /\ LET assembly == ScaffoldManifest(proc[p].job)
     IN /\ jobs' = UpdateJob(proc[p].job_id,
                     [status |-> "ready_for_assembly", assembly_manifest |-> {assembly}],
                     dbOk)
        /\ Return(p, [Respond("process-job", 200, "ready_for_assembly")
                         EXCEPT !.assembly = {assembly}])
  /\ UNCHANGED <<fnCall, asm, client, storage, assets, calls, env>>

\* the catch block with the body still unread: job_id is read from the
\* body and, when truthy, the job is updated through the service-role client
SC_Catch(p, dbOk) ==
  /\ proc[p].pc = "sc_catch"
  /\ jobs' = IF proc[p].job_id # 0
                THEN UpdateJob(proc[p].job_id,
                       [status |-> "error", error |-> proc[p].errMsg], dbOk)
                ELSE jobs
  /\ Return(p, Respond("process-job", 500, proc[p].errMsg))
  /\ UNCHANGED <<fnCall, asm, client, storage, assets, calls, env>>

ScaffoldNext ==
  \/ \E p \in SeqProcs, auth \in AuthInputs, job_id \in JobIdInputs, rowVisible \in BOOLEAN :
       SC_Request(p, auth, job_id, rowVisible)
  \/ \E p \in SeqProcs, dbOk \in BOOLEAN : SC_SetRunning(p, dbOk)
  \/ \E p \in SeqProcs, dbOk \in BOOLEAN : SC_Persist(p, dbOk)
  \/ \E p \in SeqProcs, dbOk \in BOOLEAN : SC_Catch(p, dbOk)

\* both process-job handlers of the file beside create-job and finalize-job,
\* one request at a time
HandlersNext == Next \/ ScaffoldNext

HandlersInit == Init /\ env \in {{}, EnvKeys}

HandlersSpec == HandlersInit /\ [][HandlersNext]_vars

\* ------------------------------------------------ overlapping requests
\* Edge-function invocations run in separate isolates and share only the
\* tables: the handlers' steps interleave freely, two requests at a time.
ConcInit == Init /\ env \in {{}, EnvKeys}

ConcNext == NextOn(Procs)

ConcSpec == ConcInit /\ [][ConcNext]_vars

\* ------------------------------------------------------------ properties
AssemblyStatuses == {"ready_for_assembly", "assembling", "done"}
TerminalStatuses == {"done", "error"}
FinalizableStatuses == {"ready_for_assembly", "assembling", "running"}
JobIds == DOMAIN jobs

\* C1: in every reachable state, a job's assembly_manifest is set if and
\* only if its status is ready_for_assembly, assembling or done.
C1_ManifestIffAssemblyStatus ==
  \A id \in JobIds :
    (jobs[id].assembly_manifest # {}) <=> (jobs[id].status \in AssemblyStatuses)

\* C2: in every reachable state, a job's result_url is set if and only if
\* its status is done.
C2_ResultUrlIffDone ==
  \A id \in JobIds : (jobs[id].result_url # NoUrl) <=> (jobs[id].status = "done")

\* C3: in every reachable state, a job's error field is set if and only if
\* its status is error.
C3_ErrorIffErrorStatus ==
  \A id \in JobIds : (jobs[id].error # NoError) <=> (jobs[id].status = "error")

\* C4: once a job's status is done or error, no step of any process-job or
\* finalize-job invocation changes the job's row again.
C4_TerminalIsFinal ==
  [][\A id \in JobIds :
       jobs[id].status \in TerminalStatuses => jobs'[id] = jobs[id]]_vars

\* C5: a job whose status is not ready_for_assembly, assembling or running
\* is never finalized: no step makes it done or changes its result_url.
C5_FinalizeOnlyFromLegalStatus ==
  [][\A id \in JobIds :
       jobs[id].status \notin FinalizableStatuses =>
         /\ jobs'[id].result_url = jobs[id].result_url
         /\ jobs'[id].status = "done" => jobs[id].status = "done"]_vars

\* a URL that names the outputs location
ReferencesOutputs(url) == "outputs" \in { url[i] : i \in DOMAIN url }

OwnerOf(id) == jobs[id].user_id

C7_LipSyncAtMostOnce ==
  \A p \in Procs : proc[p].lipSyncCalls <= 1

AvatarUrls(clips) == { clips[k].url : k \in { i \in DOMAIN clips : clips[i].type = "avatar" } }

\* C8: all avatar clips of a run, and of every stored manifest, carry the
\* same URL.
C8_AvatarClipsShareUrl ==
  /\ \A p \in Procs : Cardinality(AvatarUrls(proc[p].clips)) <= 1
  /\ \A id \in JobIds : \A m \in jobs[id].assembly_manifest :
       Cardinality(AvatarUrls(m.clips)) <= 1

ProviderKeys == {"OPEN_AI_KEY", "SYNC_SO_API", "GOOGLE_SERVICE_ACCOUNT_JSON"}
NoProviderConfigured == env \cap ProviderKeys = {}

AllClipsAre(m, url) == \A k \in DOMAIN m.clips : m.clips[k].url = url

\* C9: with no LLM key, no lip-sync key and no service-account key, the
\* step of process-job that persists its result answers with a manifest
\* whose clips all carry the job's selfie_url; when the store takes the
\* update the job is ready_for_assembly with that manifest; for emotion
\* ascending the manifest has 3 clips and target.duration_sec 10.
C9_AllUnavailablePlaceholders ==
  [][\A p \in Procs, dbOk \in BOOLEAN :
       (NoProviderConfigured /\ PJ_Persist(p, dbOk)) =>
          LET id == proc[p].job_id
          IN /\ response'.code = 200
             /\ response'.body = "ready_for_assembly"
             /\ response'.assembly # {}
             /\ \A m \in response'.assembly :
                  /\ AllClipsAre(m, jobs[id].selfie_url)
                  /\ jobs[id].emotion = "ascending" =>
                       /\ Len(m.clips) = 3
                       /\ m.target.duration_sec = 10
             /\ dbOk => /\ jobs'[id].status = "ready_for_assembly"
                        /\ jobs'[id].assembly_manifest = response'.assembly]_vars

\* C9 witness: with no provider configured a job is ready_for_assembly
\* with a three-clip manifest, and process-job has answered with it
W9_AllUnavailablePlaceholders ==
  /\ NoProviderConfigured
  /\ response.fn = "process-job"
  /\ response.code = 200
  /\ \E id \in JobIds :
       /\ jobs[id].status = "ready_for_assembly"
       /\ jobs[id].assembly_manifest = response.assembly
       /\ \E m \in jobs[id].assembly_manifest : Len(m.clips) = 3

InPipeline(p) == proc[p].pc \in {"token", "scenes"}

\* C10: no step of the token exchange or of the scene loop aborts the run,
\* whatever the providers do; every clip carries the selfie_url unless its
\* generation returned a URL; the persisting step answers with one clip
\* per planned scene, and when the store takes the update the job is
\* ready_for_assembly with that manifest.
C10_ProviderFailureNeverAborts ==
  [][/\ \A p \in Procs :
          (InPipeline(p) /\ proc'[p] # proc[p]) =>
             /\ proc'[p].pc \in {"storyboard", "scenes", "idle"}
             /\ proc'[p].pc = "idle" => response'.code = 200
             /\ \A k \in DOMAIN proc'[p].clips :
                  proc'[p].clips[k].url \in
                    {proc[p].job.selfie_url,
                     IF proc'[p].clips[k].type = "avatar" THEN LipSyncUrl ELSE VeoUrl}
     /\ \A p \in Procs, dbOk \in BOOLEAN :
          PJ_Persist(p, dbOk) =>
             /\ \A m \in response'.assembly :
                  Len(m.clips) = Len(proc[p].storyboard.scenes)
             /\ dbOk => /\ jobs'[proc[p].job_id].status = "ready_for_assembly"
                        /\ jobs'[proc[p].job_id].assembly_manifest = response'.assembly
                        /\ response'.assembly # {}]_vars

\* C10 witness: every provider is configured, lip-sync generation failed,
\* and the job is ready_for_assembly with a manifest that holds a
\* placeholder clip
W10_ProviderFailureNeverAborts ==
  /\ env = EnvKeys
  /\ \E id \in JobIds :
       /\ jobs[id].status = "ready_for_assembly"
       /\ \E r \in jobs[id].provider_refs : ~r.has_lipsync
       /\ \E m \in jobs[id].assembly_manifest :
            /\ Len(m.clips) = 3
            /\ \E k \in DOMAIN m.clips : m.clips[k].url = jobs[id].selfie_url
            /\ \E k \in DOMAIN m.clips : m.clips[k].url = VeoUrl

\* ------------------------------------ properties of the helper functions
Returned(op) == fnCall.op = op /\ fnCall.out # {}

\* C11: generateStoryboard returns, for every emotion label and every LLM
\* behaviour, a list of 3 to 4 scenes whose first and last scenes are
\* avatar scenes.
C11_StoryboardWellFormed ==
  Returned("generateStoryboard") =>
    \A r \in fnCall.out :
      /\ r.storyboard.iterable
      /\ Len(r.storyboard.scenes) \in 3..4
      /\ r.storyboard.scenes[1].type = "avatar"
      /\ r.storyboard.scenes[Len(r.storyboard.scenes)].type = "avatar"

\* C12: getDefaultStoryboard returns, for every emotion label, exactly
\* three scenes typed avatar, broll, avatar with durations 3, 4 and 3.
C12_DefaultStoryboardShape ==
  Returned("getDefaultStoryboard") =>
    \A sb \in fnCall.out :
      /\ Len(sb) = 3
      /\ <<sb[1].type, sb[2].type, sb[3].type>> = <<"avatar", "broll", "avatar">>
      /\ <<sb[1].duration_sec, sb[2].duration_sec, sb[3].duration_sec>> = <<3, 4, 3>>

\* C12 witness: the default storyboard of a label outside the table
W12_DefaultStoryboardShape ==
  /\ Returned("getDefaultStoryboard")
  /\ fnCall.in.emotion = "unknown"
  /\ \E sb \in fnCall.out : sb[2].prompt = "abstract colorful visuals"

FailsTwiceThenSucceeds(in) ==
  /\ in.maxRetries = 3
  /\ in.script[1].throws
  /\ in.script[2].throws
  /\ ~in.script[3].throws

\* C13: withRetry on an operation that fails twice and then succeeds, with
\* 3 attempts allowed, returns the success value after exactly 3
\* invocations, having waited baseDelay and then 2*baseDelay; in every
\* call the waits are made between invocations only, and the wait before
\* invocation k+1 is baseDelay * 2^(k-1).
C13_RetryBackoff ==
  Returned("withRetry") =>
    \A r \in fnCall.out :
      LET in == fnCall.in
      IN /\ FailsTwiceThenSucceeds(in) =>
              /\ ~r.threw
              /\ r.value = in.script[3].value
              /\ r.calls = 3
              /\ r.delays = <<in.baseDelay, 2 * in.baseDelay>>
         /\ Len(r.delays) = r.calls - 1
         /\ \A k \in 1..Len(r.delays) : r.delays[k] = in.baseDelay * 2^(k - 1)

\* C13 witness: a call that failed twice and then succeeded has returned
W13_RetryBackoff ==
  /\ Returned("withRetry")
  /\ FailsTwiceThenSucceeds(fnCall.in)
  /\ \E r \in fnCall.out : r.calls = 3 /\ ~r.threw

AlwaysFails(in) == \A k \in 1..in.maxRetries : in.script[k].throws

FirstSuccessAt(in, k) ==
  /\ ~in.script[k].throws
  /\ \A j \in 1..(k - 1) : in.script[j].throws

\* C14: withRetry on an operation that always fails invokes it exactly
\* maxRetries times, then throws the error of the last invocation, having
\* waited maxRetries - 1 times (not after the last failure); when an
\* invocation succeeds, that one is the last and its value is returned.
C14_RetryExhaustion ==
  Returned("withRetry") =>
    \A r \in fnCall.out :
      LET in == fnCall.in
      IN /\ AlwaysFails(in) =>
              /\ r.threw
              /\ r.calls = in.maxRetries
              /\ r.value = in.script[in.maxRetries].value
              /\ Len(r.delays) = in.maxRetries - 1
         /\ \A k \in 1..in.maxRetries :
              FirstSuccessAt(in, k) =>
                /\ ~r.threw
                /\ r.calls = k
                /\ r.value = in.script[k].value

\* C14 witness: a call whose operation failed with error1 and then with
\* error2, with 2 attempts allowed, has thrown
W14_RetryExhaustion ==
  /\ Returned("withRetry")
  /\ fnCall.in.maxRetries = 2
  /\ fnCall.in.script[1] = [throws |-> TRUE, value |-> "error1"]
  /\ fnCall.in.script[2] = [throws |-> TRUE, value |-> "error2"]
  /\ \E r \in fnCall.out : r.threw

\* C15: a provider whose key or configuration is missing gets no request:
\* without the LLM key generateStoryboard makes no request and returns
\* the default storyboard; without the lip-sync key generateLipSync makes
\* no request and returns no URL; without an access token or without a
\* project id no text-to-video request is made and no URL is returned.
C15_MissingConfigNeverCalled ==
  /\ (Returned("generateStoryboard") /\ "OPEN_AI_KEY" \notin env) =>
        \A r \in fnCall.out :
          /\ r.requests = 0
          /\ r.storyboard.iterable
          /\ r.storyboard.scenes = getDefaultStoryboard(fnCall.in.emotion)
  /\ (Returned("generateLipSync") /\ "SYNC_SO_API" \notin env) =>
        \A r \in fnCall.out : r.submits = 0 /\ r.url = NoUrl
  /\ (Returned("brollUrl")
        /\ (~fnCall.in.accessToken \/ "VERTEX_PROJECT_ID" \notin env)) =>
        \A r \in fnCall.out : r.submits = 0 /\ r.url = NoUrl

\* C15 witness: generateStoryboard has returned without an LLM key, for an
\* LLM that would have answered with a scene list
W15_MissingConfigNeverCalled ==
  /\ Returned("generateStoryboard")
  /\ "OPEN_AI_KEY" \notin env
  /\ fnCall.in.script[1].kind = "json_scenes"
  /\ \E r \in fnCall.out : Len(r.storyboard.scenes) = 3

\* the first attempt ends with the provider reporting status FAILED
LipSyncReportsFailed(script) ==
  /\ script[1].submit = "ok"
  /\ script[1].final = "FAILED"
  /\ script[1].pending < LipSyncMaxAttempts

\* the first attempt ends with an operation that is done without video URI
VeoDoneWithoutUri(script) ==
  /\ script[1].submit = "ok"
  /\ script[1].named
  /\ ~script[1].hasUri
  /\ script[1].badPoll = 0
  /\ script[1].pending < VeoMaxAttempts

\* C16: when the lip-sync provider reports FAILED, or the text-to-video
\* operation is done without a video URI, the generation call makes no
\* further submit request and returns no URL.
C16_PermanentFailureNotRetried ==
  /\ (Returned("generateLipSync") /\ "SYNC_SO_API" \in env
        /\ LipSyncReportsFailed(fnCall.in.script)) =>
        \A r \in fnCall.out : r.submits = 1 /\ r.url = NoUrl
  /\ (Returned("brollUrl") /\ fnCall.in.accessToken /\ "VERTEX_PROJECT_ID" \in env
        /\ VeoDoneWithoutUri(fnCall.in.script)) =>
        \A r \in fnCall.out : r.submits = 1 /\ r.url = NoUrl

\* ------------------------------------------- properties of process-job
\* C17: a process-job request that names no job, a missing job or a job
\* of another user is answered with an error and changes no job; a job
\* becomes running only in a process-job run of its owner on that job.
C17_OnlyOwnerStartsJob ==
  [][/\ \A p \in Procs, auth \in AuthInputs, job_id \in JobIdInputs, envOk \in BOOLEAN :
          (/\ PJ_Request(p, auth, job_id, envOk)
           /\ ~(JobExists(job_id) /\ auth = jobs[job_id].user_id)) =>
             /\ response'.fn = "process-job"
             /\ response'.code >= 400
             /\ proc'[p].pc = "idle"
             /\ jobs' = jobs
     /\ \A id \in JobIds :
          (jobs'[id].status = "running" /\ jobs[id].status # "running") =>
             \E p \in Procs :
               /\ proc[p].kind = "process"
               /\ proc[p].job_id = id
               /\ proc[p].user = jobs[id].user_id]_vars

\* C17 witness: a process-job request on an existing, queued job was
\* answered "Job not found" (the requester is not its owner)
W17_OnlyOwnerStartsJob ==
  /\ response = Respond("process-job", 404, "Job not found")
  /\ \E id \in JobIds : jobs[id].status = "queued"

\* C18: the step of process-job that persists the results answers
\* ready_for_assembly only if the job row is then ready_for_assembly with
\* the manifest of the answer; if the row is not, the job is in error with
\* a stored diagnostic and the answer is an error.
C18_ReadyOnlyIfPersisted ==
  [][\A p \in Procs, dbOk \in BOOLEAN :
       PJ_Persist(p, dbOk) =>
         LET id == proc[p].job_id
             persisted == /\ jobs'[id].status = "ready_for_assembly"
                          /\ jobs'[id].assembly_manifest = response'.assembly
         IN /\ response'.body = "ready_for_assembly" => persisted
            /\ ~persisted => /\ jobs'[id].status = "error"
                             /\ jobs'[id].error # NoError
                             /\ response'.code >= 400]_vars

GenericFailure == "Processing failed. Please try again."

\* C19: a run that has thrown knows its job id and the failure reason; its
\* catch block answers 500 with the generic message, which is not the
\* failure reason, and, when the store takes the update, the job is in
\* error with the failure reason in its error field.
C19_CatchMarksErrorGenericMessage ==
  [][/\ \A p \in Procs :
          proc[p].pc = "catch" => proc[p].job_id # 0 /\ proc[p].errMsg # NoError
     /\ \A p \in Procs, dbOk \in BOOLEAN :
          PJ_Catch(p, dbOk) =>
             /\ response' = Respond("process-job", 500, GenericFailure)
             /\ response'.body # proc[p].errMsg
             /\ dbOk => /\ jobs'[proc[p].job_id].status = "error"
                        /\ jobs'[proc[p].job_id].error = proc[p].errMsg]_vars

\* C19 witness: a run has thrown on a storyboard that is not iterable; the
\* job is in error with that reason and the caller got the generic message
W19_CatchMarksErrorGenericMessage ==
  /\ response = Respond("process-job", 500, GenericFailure)
  /\ \E id \in JobIds :
       /\ jobs[id].status = "error"
       /\ jobs[id].error = "storyboard is not iterable"

\* the sum of the clips' durations, 3 standing in for a clip without one
RECURSIVE SumOfDurations(_)
SumOfDurations(clips) ==
  IF clips = <<>> THEN 0
  ELSE (IF Head(clips).duration_sec = NoDuration THEN 3 ELSE Head(clips).duration_sec)
       + SumOfDurations(Tail(clips))

\* C20: in every manifest process-job stores or answers with,
\* target.duration_sec is the sum of the clips' duration_sec values, with
\* 3 substituted only for a clip that has no explicit duration.
C20_TargetDurationIsSum ==
  /\ \A id \in JobIds : \A m \in jobs[id].assembly_manifest :
       m.target.duration_sec = SumOfDurations(m.clips)
  /\ \A m \in response.assembly :
       m.target.duration_sec = SumOfDurations(m.clips)

Mirrors(clips, scenes) ==
  \A k \in DOMAIN clips :
    /\ clips[k].type = scenes[k].type
    /\ clips[k].duration_sec = scenes[k].duration_sec

\* C21: the clips of a run, and of every stored manifest, are one per
\* storyboard scene in storyboard order, clip i carrying the type and the
\* duration of scene i.
C21_ClipsMirrorScenes ==
  /\ \A p \in Procs :
       proc[p].pc = "scenes" =>
         /\ Len(proc[p].clips) <= Len(proc[p].storyboard.scenes)
         /\ Mirrors(proc[p].clips, proc[p].storyboard.scenes)
  /\ \A id \in JobIds :
       \A m \in jobs[id].assembly_manifest, r \in jobs[id].provider_refs :
         /\ Len(m.clips) = Len(r.storyboard)
         /\ Mirrors(m.clips, r.storyboard)

\* C22: every manifest process-job answers with has audio_url equal to the
\* job's song_url, target.aspect_ratio "9:16", upload_target bucket
\* "outputs" and an upload path that names the job id; the stored manifest
\* is that manifest.
C22_ManifestConstants ==
  [][\A p \in Procs, dbOk \in BOOLEAN :
       PJ_Persist(p, dbOk) =>
         LET id == proc[p].job_id
         IN /\ response'.assembly # {}
            /\ \A m \in response'.assembly :
                 /\ m.audio_url = jobs[id].song_url
                 /\ m.target.aspect_ratio = "9:16"
                 /\ m.upload_target.bucket = "outputs"
                 /\ \E i \in DOMAIN m.upload_target.path :
                      m.upload_target.path[i] = ToString(id)
            /\ dbOk => jobs'[id].assembly_manifest = response'.assembly]_vars

\* C22 witness: a stored manifest built from a lip-sync result carries the
\* job's song as audio
W22_ManifestConstants ==
  \E id \in JobIds : \E m \in jobs[id].assembly_manifest :
    /\ m.audio_url = SongUrl
    /\ \E k \in DOMAIN m.clips : m.clips[k].url = LipSyncUrl

\* ------------------------------------------- properties of create-job
ValidCreate(auth, body) ==
  /\ auth \in Users
  /\ body.emotion # NoEmotion
  /\ body.selfie_asset_url # NoUrl
  /\ body.song_asset_url # NoUrl

\* C27: create-job inserts at most one job, owned by the authenticated
\* user, queued, without manifest, result_url or error; a request without
\* valid authorization or with a required field missing is answered 401
\* or 400 and inserts nothing.
C27_CreateJobValidates ==
  [][\A auth \in AuthInputs, body \in CreateBodies, dbOk \in BOOLEAN :
       CreateJob(auth, body.emotion, body.selfie_asset_url, body.song_asset_url, dbOk) =>
         /\ ~ValidCreate(auth, body) =>
              /\ jobs' = jobs
              /\ response'.code \in {400, 401}
         /\ (ValidCreate(auth, body) /\ dbOk) => Len(jobs') = Len(jobs) + 1
         /\ jobs' # jobs =>
              /\ ValidCreate(auth, body)
              /\ Len(jobs') = Len(jobs) + 1
              /\ \A id \in JobIds : jobs'[id] = jobs[id]
              /\ LET row == jobs'[Len(jobs')]
                 IN /\ row.user_id = auth
                    /\ row.status = "queued"
                    /\ row.assembly_manifest = {}
                    /\ row.result_url = NoUrl
                    /\ row.error = NoError
                    /\ row.emotion = body.emotion
                    /\ row.selfie_url = body.selfie_asset_url
                    /\ row.song_url = body.song_asset_url]_vars

\* C27 witness: create-job has answered with a job id and the job is there,
\* queued
W27_CreateJobValidates ==
  /\ response = Respond("create-job", 200, "job_id")
  /\ \E id \in JobIds : jobs[id].status = "queued" /\ jobs[id].user_id \in Users

\* ------------------------------------------ properties of the poll loops
\* C30: one call of generateVeoClip makes at most 60 status polls and one
\* call of generateLipSync at most 120; a generation whose only attempt
\* reaches a terminal status stops polling there; a generation whose poll
\* budget is exhausted returns no URL.
C30_PollBudget ==
  /\ Returned("brollUrl") =>
       \A r \in fnCall.out :
         LET first == fnCall.in.script[1]
         IN /\ r.polls <= VeoMaxAttempts
            /\ (r.submits = 1 /\ first.named /\ first.badPoll = 0
                  /\ first.pending < VeoMaxAttempts) => r.polls = first.pending + 1
            /\ (r.submits >= 1 /\ first.submit = "ok" /\ first.named /\ first.badPoll = 0
                  /\ first.pending >= VeoMaxAttempts) => r.url = NoUrl
  /\ Returned("generateLipSync") =>
       \A r \in fnCall.out :
         LET first == fnCall.in.script[1]
         IN /\ r.polls <= LipSyncMaxAttempts
            /\ (r.submits = 1 /\ first.pending < LipSyncMaxAttempts) =>
                 r.polls = first.pending + 1
            /\ (r.submits >= 1 /\ first.submit = "ok"
                  /\ first.pending >= LipSyncMaxAttempts) => r.url = NoUrl

\* ------------------------------------------ properties of assembleVideo
NonDecreasing(progress) ==
  \A k \in 1..(Len(progress) - 1) : FracLeq(progress[k], progress[k + 1])

\* C23: the values assembleVideo passes to the progress callback never
\* decrease, and when it returns a blob the last value is 100.
C23_ProgressMonotone ==
  /\ NonDecreasing(asm.progress)
  /\ asm.pc = "resolved" =>
       /\ asm.progress # <<>>
       /\ asm.progress[Len(asm.progress)] = Frac(100, 1)

ExpectedFetches(manifest) ==
  [k \in 1..(Len(manifest.clips) + 1) |->
     IF k <= Len(manifest.clips) THEN manifest.clips[k].url ELSE manifest.audio_url]

IsPrefix(a, b) == Len(a) <= Len(b) /\ \A k \in 1..Len(a) : a[k] = b[k]

ExecStarted == asm.pc \in {"exec", "resolved"} \/ asm.encodeFailed

\* C24: assembleVideo fetches clip 0..n-1 in manifest order and then the
\* audio; the n+1 fetches are all made when exec starts, and the concat
\* list names clip_0 .. clip_{n-1} in that order.
C24_FetchOrder ==
  /\ IsPrefix(asm.fetched, ExpectedFetches(asm.manifest))
  /\ ExecStarted =>
       /\ asm.fetched = ExpectedFetches(asm.manifest)
       /\ Len(asm.fetched) = Len(asm.manifest.clips) + 1
       /\ asm.concat = [k \in 1..Len(asm.manifest.clips) |-> ClipFile(k - 1)]

\* C24 witness: a run over three clips with three different URLs returned
W24_FetchOrder ==
  /\ asm.pc = "resolved"
  /\ Len(asm.manifest.clips) = 3
  /\ asm.fetched = <<VeoUrl, SelfieUrl, LipSyncUrl, SongUrl>>

\* C25: assembleVideo returns a blob only from a run in which no fetch and
\* no encode failed; a run in which one failed ends rejected.
C25_FailureAborts ==
  /\ asm.pc = "resolved" => ~asm.fetchFailed /\ ~asm.encodeFailed
  /\ asm.blob # "none" => asm.blob = "complete"

\* C28: after creation, a job record's status is changed only by the
\* orchestration pipeline: every step that changes the status of an existing
\* job is a write of a process-job or finalize-job run on that job; no
\* client-side operation writes a job's status.
C28_PipelineOnlyWritesStatus ==
  [][\A id \in DOMAIN jobs :
       jobs'[id].status # jobs[id].status =>
         \E p \in Procs : /\ proc[p].job_id = id
                          /\ proc[p].pc \in {"set_running", "scenes", "catch", "fj_update"}]_vars

\* C29: once the client has uploaded the assembled video and is about to call
\* finalize-job, the object it stored is at exactly the bucket and path of the
\* upload_target of the manifest process-job returned, and the URL it passes
\* to finalize-job is a URL of that object.
C29_UploadTargetHonoured ==
  (client.pc = "finalize" /\ response.fn = "process-job") =>
    \A m \in response.assembly :
      /\ [bucket |-> m.upload_target.bucket, path |-> m.upload_target.path] \in storage
      /\ client.finalUrl = SignedUrl(m.upload_target.bucket, m.upload_target.path)

ProcessingRequested(id) ==
  \E p \in Procs : /\ proc[p].kind = "process"
                   /\ proc[p].pc = "set_running"
                   /\ proc[p].job_id = id

Terminal(id) ==
  /\ JobExists(id)
  /\ \/ jobs[id].status = "done" /\ jobs[id].result_url # NoUrl
     \/ jobs[id].status = "error" /\ jobs[id].error # NoError

\* C26: every job for which processing is requested eventually reaches a
\* terminal persisted status, done with a result_url or error with a
\* diagnostic message, provided every call of the run eventually returns or
\* fails.
C26_EventuallyTerminal ==
  \A id \in 1..MaxJobs : ProcessingRequested(id) ~> Terminal(id)

\* a clip whose URL came from a provider
ProviderClip(clip) == clip.url \in {LipSyncUrl, VeoUrl}

\* C31: the diagnostics persisted with a manifest are consistent with it:
\* has_lipsync is true exactly when the lip-sync provider returned a video
\* for the job, clips_generated is the number of clips that carry a provider's
\* URL, and clips_generated plus the number of placeholder clips (the selfie)
\* is the number of clips.
C31_DiagnosticsConsistent ==
  \A id \in DOMAIN jobs :
    \A m \in jobs[id].assembly_manifest, r \in jobs[id].provider_refs :
      /\ r.has_lipsync <=> (\E k \in 1..Len(m.clips) : m.clips[k].url = LipSyncUrl)
      /\ r.clips_generated = Cardinality({k \in 1..Len(m.clips) : ProviderClip(m.clips[k])})
      /\ r.clips_generated
           + Cardinality({k \in 1..Len(m.clips) : m.clips[k].url = jobs[id].selfie_url})
         = Len(m.clips)

\* a persisted manifest with a lip-synced clip, and a placeholder clip too
W31_DiagnosticsConsistent ==
  \E id \in DOMAIN jobs :
    \E m \in jobs[id].assembly_manifest, r \in jobs[id].provider_refs :
      /\ r.has_lipsync
      /\ r.clips_generated >= 1
      /\ r.clips_generated < Len(m.clips)

\* the order queued < running < ready_for_assembly < assembling < done
StatusOrder == <<"queued", "running", "ready_for_assembly", "assembling", "done">>

Rank(status) == CHOOSE k \in 1..Len(StatusOrder) : StatusOrder[k] = status

Ordered(status) == \E k \in 1..Len(StatusOrder) : StatusOrder[k] = status

\* C32: under any interleaving of process-job and finalize-job invocations
\* on the same job, two overlapping process-job runs included, no step moves
\* a job's persisted status backward in the order
\* queued < running < ready_for_assembly < assembling < done.
C32_StatusNeverBackward ==
  [][\A id \in DOMAIN jobs :
       (Ordered(jobs[id].status) /\ Ordered(jobs'[id].status)) =>
         Rank(jobs'[id].status) >= Rank(jobs[id].status)]_vars

\* the answers to a request without a valid token
AuthErrors == {"No authorization header", "Unauthorized"}

\* C33: a process-job request with a missing or invalid Authorization header
\* changes no job record, in either process-job handler and whatever job_id
\* its body names: no step of such a request while it runs, and no step that
\* answers such a request at once, changes a row of the jobs table.
C33_UnauthenticatedChangesNothing ==
  [][/\ (\E p \in Procs : /\ proc[p].kind = "process"
                           /\ proc[p].pc # "idle"
                           /\ proc[p].user \notin Users)
          => \A id \in DOMAIN jobs : jobs'[id] = jobs[id]
     /\ (/\ calls' # calls
         /\ response'.fn = "process-job"
         /\ response'.body \in AuthErrors)
          => \A id \in DOMAIN jobs : jobs'[id] = jobs[id]]_vars

\* the final_video asset records of a job
FinalAssets(id) ==
  {k \in 1..Len(assets) : assets[k].type = "final_video" /\ assets[k].job_id = id}

\* C34: after any sequence of finalize-job calls, at most one final_video
\* asset record exists per job, and one exists only if the job's persisted
\* status is done with result_url equal to the asset's URL.
C34_OneFinalAsset ==
  \A id \in DOMAIN jobs :
    /\ Cardinality(FinalAssets(id)) <= 1
    /\ \A k \in FinalAssets(id) :
         /\ jobs[id].status = "done"
         /\ jobs[id].result_url = assets[k].url

\* C35: the page sets its local status to done and moves to the result step
\* only if the finalize-job call succeeded, so whenever the result step is
\* reached the persisted job has status done and its result_url is the URL
\* the page displays.
C35_ResultOnlyAfterFinalize ==
  (client.pc = "finished" /\ client.step = "result") =>
    /\ client.localStatus = "done"
    /\ response.fn = "finalize-job" /\ response.code = 200
    /\ JobExists(client.jobId)
    /\ jobs[client.jobId].status = "done"
    /\ jobs[client.jobId].result_url = client.resultUrl

\* C36: while a handleGenerate run is in flight the status passed to
\* GenerateScreen is never queued, and the generate action is not offered.
C36_NotOfferedInFlight ==
  InFlight => (ScreenStatus # "queued" /\ ~GenerateOffered)

\* C37: after handleMakeAnother has reset the flow, and until Generate is
\* pressed again, the status passed to GenerateScreen is queued, so the
\* generate action is offered once the generate step is reached.
C37_QueuedAfterReset ==
  (client.pc = "idle") =>
    /\ ScreenStatus = "queued"
    /\ client.step = "generate" => GenerateOffered

\* a process-job invocation that has been accepted and has not answered
ProcessRunning(p) == proc[p].kind = "process" /\ proc[p].pc # "idle"

\* C38: every process-job invocation terminates with a response, given that
\* each outbound call eventually returns or fails: an accepted invocation
\* eventually has answered, and its scene loop never makes more clips than
\* the storyboard has scenes.
C38_ProcessJobTerminates ==
  /\ \A p \in Procs :
       ProcessRunning(p) ~> (proc[p].pc = "idle" /\ response.fn = "process-job")
  /\ [](\A p \in Procs :
          proc[p].pc = "scenes" =>
            Len(proc[p].clips) <= Len(proc[p].storyboard.scenes))

\* an invocation has gone through the scene loop of a storyboard of three
\* scenes or more and has answered
W38_ProcessJobTerminates ==
  /\ \A p \in Procs : proc[p].pc = "idle"
  /\ response.fn = "process-job"
  /\ response.code = 200
  /\ \E m \in response.assembly : Len(m.clips) >= 3
====
